---- MODULE Spec2Model ----
(***************************************************************************)
(* Model of the prompt-router cache (src/cache/prompt_cache.py) and of the *)
(* batch engine that uses it (src/chains/batch_processor.py).              *)
(*                                                                         *)
(* Spec      : one caller drives the PromptCache, every public operation   *)
(*             is one step; the clock stands still.                        *)
(* SpecLru   : one caller stores and reads while the clock advances.       *)
(* SpecBatch : one process_batch call; the item pipelines run on the pool  *)
(*             threads and interleave at their cache calls.                *)
(* SpecWarm  : one process_batch call on a cache that already holds an     *)
(*             entry, with a database that may fail.                       *)
(* SpecConc  : several threads call one PromptCache; the operations are    *)
(*             split at their lock and at their database and file steps.   *)
(* SpecGets  : several threads call get on a cache that holds live         *)
(*             entries.                                                    *)
(* SpecReports : process_batch is called again and again; each call is one *)
(*             step that persists its report.                              *)
(* SpecBatchLive : one process_batch call under fair scheduling.           *)
(* SpecProgress : a ProgressTracker, used by one process_batch call or     *)
(*             shared by several threads.                                  *)
(* SpecSingleton : several threads call get_cache_instance.                *)
(***************************************************************************)
EXTENDS Integers, Sequences, FiniteSets, TLC

\* ------------------------------------------------------------------ bounds
MaxTime == 1
MaxAccess == 1
\* hits one entry takes from readers that run at the same time
MaxHits == 2
\* max_size_bytes of the cache under study, in units of the smallest payload
Budget == 3
\* longest batch handed to process_batch, largest max_workers of the processor
MaxItems == 2
MaxWorkers == 2
\* threads that call one PromptCache instance at the same time
MaxThreads == 2
\* process_batch calls of one processor, seconds the wall clock advances
MaxRuns == 3
MaxSeconds == 1
\* update() calls made on one ProgressTracker by the threads that share it
MaxUpdates == 3
\* get_cache_instance calls each thread makes
MaxCalls == 2

\* ------------------------------------------------------- program constants
DefaultTtlHours == 24
NULL == -1

\* ------------------------------------------------------------------ inputs
\* the calls the caller makes: (prompt, target_llm, optimization_type) and the
\* tags it stores that triple with; a string is the sequence of its characters
Requests ==
  { [prompt |-> <<"a">>, target_llm |-> <<"x">>, optimization_type |-> <<"d">>,
     tags |-> <<>>],
    [prompt |-> <<"b">>, target_llm |-> <<"x">>, optimization_type |-> <<"d">>,
     tags |-> << <<"batch">>, <<"x">> >>],
    [prompt |-> <<"a">>, target_llm |-> <<"x", "|", "y">>, optimization_type |-> <<"d">>,
     tags |-> << <<"tmp">> >>],
    [prompt |-> <<"a", "|", "x">>, target_llm |-> <<"y">>, optimization_type |-> <<"d">>,
     tags |-> << <<"tmp">> >>] }

\* payloads handed to set; "lambda" stands for a dict pickle cannot serialise
Payloads == {"p1", "p2", "big", "lambda"}
Picklable(data) == data # "lambda"
\* size in bytes of the pickle of a payload (file_path.stat().st_size)
PickleSize(data) == CASE data = "p1" -> 1
                      [] data = "p2" -> 2
                      [] data = "big" -> Budget + 1
                      [] OTHER -> 1

\* the payloads SpecLru stores
LruPayloads == {"p1", "p2"}
TagQueries == { <<>>, << <<"batch">> >>, << <<"zz">>, <<"tmp">> >>, << <<"x">>, <<"tmp">> >> }
\* "insert": the INSERT OR REPLACE of set raises sqlite3.Error
Faults == {"none", "insert"}
\* ttl_hours the caller of SpecLru stores a triple with: 0 (expires_at = now)
\* for the prompt "b", None (the default TTL) for the others
TtlOf(t) == IF t.prompt = <<"b">> THEN 0 ELSE NULL
\* what can happen to a blob file behind the program's back
Damages == {"unlink", "garbage"}
\* a slip of the load: whatever bytes the file holds are handed back
LoadableAlways(blob) == TRUE

\* pickle.load succeeds on what pickle.dump wrote, not on a corrupted file
Loadable(blob) == blob # "garbage"

\* --------------------------------------------------------------- the state
VARIABLES
  meta,     \* cache_entries table: key -> row, for the keys that have a row
  files,    \* cache_dir/<key>.cache: key -> pickled payload, for the files that exist
  now,      \* datetime.now(), in hours
  lastOp,   \* the last operation the caller completed, with what it returned
            \* (replaced: the access_count of the row a set found under its key)
  batch,    \* the arguments of process_batch and the processor's max_workers
  mainPc,   \* where the thread that called process_batch is
  pipe,     \* per submitted item: where its _process_single_item is, what it did
  finished, \* the items whose future is done, in the order they finished
  yielded,  \* the futures as_completed has handed to the loop, in order
  early,    \* the futures that were done when as_completed was entered
  report,   \* the BatchReport under construction
  lock,     \* self._lock of the PromptCache: the thread that holds it, 0 if free
  th,       \* per caller thread of the store: the operation it is in and where
  reports,  \* reports_dir: batch id -> the document of <batch_id>_report.json
  runs,     \* the process_batch calls made so far
  second,   \* datetime.now() at the resolution of strftime('%Y%m%d_%H%M%S')
  progress, \* the ProgressTracker: total_items, completed_items, start_time, lock
  upd,      \* per thread that calls ProgressTracker.update: where it is in it
  returned, \* the update() calls that have returned
  handed,   \* the dicts get_progress has produced for the progress callback
  cacheInstance, \* the module global _cache_instance
  cacheLock,     \* the module global _cache_lock: the thread that holds it, 0 if free
  gci,           \* per thread that calls get_cache_instance: where it is in it
  constructed    \* the PromptCache objects get_cache_instance has constructed

storeVars == <<meta, files, now, lastOp>>
batchVars == <<batch, mainPc, pipe, finished, yielded, early, report>>
concVars == <<lock, th>>
reportVars == <<reports, runs, second>>
trackVars == <<progress, upd, returned, handed>>
singletonVars == <<cacheInstance, cacheLock, gci, constructed>>
vars == <<meta, files, now, lastOp, batch, mainPc, pipe, finished, yielded, early, report,
          lock, th, reports, runs, second, progress, upd, returned, handed,
          cacheInstance, cacheLock, gci, constructed>>

Range(s) == {s[i] : i \in DOMAIN s}

\* _generate_key: sha256 of "prompt|target_llm|optimization_type"; the digest
\* is taken to be injective on the joined string, so the key is that string
GenerateKey(t) == t.prompt \o <<"|">> \o t.target_llm \o <<"|">> \o t.optimization_type

Keys == {GenerateKey(t) : t \in Requests}

\* f without the point k
Without(f, ks) == [x \in (DOMAIN f) \ ks |-> f[x]]
\* f with k mapped to v
With(f, k, v) == [x \in (DOMAIN f) \cup {k} |-> IF x = k THEN v ELSE f[x]]

RECURSIVE SumSizes(_, _)
SumSizes(m, ks) ==
  IF ks = {} THEN 0
  ELSE LET k == CHOOSE x \in ks : TRUE
       IN m[k].size_bytes + SumSizes(m, ks \ {k})

\* _get_total_size: SELECT SUM(size_bytes)
GetTotalSize(m) == SumSizes(m, DOMAIN m)

\* SQLite's ascending order on a nullable column: NULL sorts first
SqlLess(a, b) == IF a = NULL THEN b # NULL ELSE (b # NULL /\ a < b)

\* ORDER BY access_count ASC, last_accessed ASC: r1 sorts strictly before r2
RowBefore(r1, r2) ==
  \/ r1.access_count < r2.access_count
  \/ r1.access_count = r2.access_count /\ SqlLess(r1.last_accessed, r2.last_accessed)

\* a slip of the SELECT: ORDER BY access_count only
LruOrdersByCountOnly(m) ==
  LET n == Cardinality(DOMAIN m)
  IN { s \in [1..n -> DOMAIN m] :
         /\ \A i, j \in 1..n : i # j => s[i] # s[j]
         /\ \A i, j \in 1..n : i < j => m[s[i]].access_count <= m[s[j]].access_count }

\* the result lists the SELECT of _cleanup_by_size may return: every listing
\* of the rows that respects the ORDER BY (rows that tie come in any order)
LruOrders(m) ==
  LET n == Cardinality(DOMAIN m)
  IN { s \in [1..n -> DOMAIN m] :
         /\ \A i, j \in 1..n : i # j => s[i] # s[j]
         /\ \A i, j \in 1..n : i < j => ~RowBefore(m[s[j]], m[s[i]]) }

RECURSIVE FreedBefore(_, _, _)
FreedBefore(m, ord, i) ==
  IF i <= 1 THEN 0 ELSE m[ord[i-1]].size_bytes + FreedBefore(m, ord, i - 1)

\* a slip of _cleanup_by_size: the loop leaves after its first removal
CleanupBySizeOnce(m, ord, needed_bytes) ==
  { ord[i] : i \in { j \in DOMAIN ord : j = 1 } }

\* _cleanup_by_size: walks the listing, removing rows until freed >= needed
CleanupBySize(m, ord, needed_bytes) ==
  { ord[i] : i \in { j \in DOMAIN ord : FreedBefore(m, ord, j) < needed_bytes } }

\* _remove_entry: DELETE the row, unlink the file if it exists
RemoveEntry(m, f, ks) == [meta |-> Without(m, ks), files |-> Without(f, ks)]

\* a slip of the expiry test: nothing ever counts as expired
ExpiredNever(row, t) == FALSE

\* `if row['expires_at']: if datetime.now() > expires_at`
Expired(row, t) == row.expires_at # NULL /\ t > row.expires_at

\* a slip of get: an expired entry is reported as a miss but left in place
\* for a later sweep
GetEffectLazy(m, f, key, t) ==
  IF key \notin DOMAIN m
    THEN [meta |-> m, files |-> f, ret |-> "None", log |-> "miss"]
  ELSE IF Expired(m[key], t)
    THEN [meta |-> m, files |-> f, ret |-> "None", log |-> "expired"]
  ELSE IF key \notin DOMAIN f
    THEN [meta |-> Without(m, {key}), files |-> f, ret |-> "None", log |-> "file missing"]
  ELSE IF ~Loadable(f[key])
    THEN [meta |-> Without(m, {key}), files |-> Without(f, {key}), ret |-> "None",
          log |-> "load error"]
  ELSE [meta |-> [m EXCEPT ![key].access_count = @ + 1, ![key].last_accessed = t],
        files |-> f, ret |-> f[key], log |-> "hit"]

\* PromptCache.get: new table, new files, the value returned and the line
\* it logs
GetEffect(m, f, key, t) ==
  IF key \notin DOMAIN m
    THEN [meta |-> m, files |-> f, ret |-> "None", log |-> "miss"]
  ELSE IF Expired(m[key], t)
    THEN [meta |-> Without(m, {key}), files |-> Without(f, {key}), ret |-> "None",
          log |-> "expired"]
  ELSE IF key \notin DOMAIN f
    THEN [meta |-> Without(m, {key}), files |-> f, ret |-> "None", log |-> "file missing"]
  ELSE IF ~Loadable(f[key])
    \* pickle.load raises: _remove_entry deletes the row and unlinks the file
    THEN [meta |-> Without(m, {key}), files |-> Without(f, {key}), ret |-> "None",
          log |-> "load error"]
  ELSE [meta |-> [m EXCEPT ![key].access_count = @ + 1, ![key].last_accessed = t],
        files |-> f, ret |-> f[key], log |-> "hit"]

\* a slip of set: the except branch returns False without unlinking the blob
\* it wrote
SetEffectKeepsBlob(m, f, key, data, ttl_hours, tags, t, ord, fault) ==
  LET expires_at == IF ttl_hours # NULL THEN t + ttl_hours ELSE t + DefaultTtlHours
      size_bytes == PickleSize(data)
      row        == [created_at |-> t, expires_at |-> expires_at, access_count |-> 0,
                     last_accessed |-> NULL, size_bytes |-> size_bytes, tags |-> tags]
  IN IF ~Picklable(data)
       \* pickle.dump raises: the file it opened is unlinked, the table is untouched
       THEN [meta |-> m, files |-> Without(f, {key}), ret |-> FALSE, evicted |-> {}]
     ELSE
       \* the blob is on disk before the eviction runs; _remove_entry unlinks
       \* the file of every victim, the one just written included
       LET victims == IF GetTotalSize(m) + size_bytes > Budget
                        THEN CleanupBySize(m, ord, size_bytes) ELSE {}
       IN IF fault = "insert"
            THEN [meta |-> Without(m, victims),
                  files |-> Without(With(f, key, data), victims),
                  ret |-> FALSE, evicted |-> victims]
            ELSE [meta |-> With(Without(m, victims), key, row),
                  files |-> Without(With(f, key, data), victims),
                  ret |-> TRUE, evicted |-> victims]

\* a slip of set: the row is updated in place, its counters survive
SetEffectKeepsCounters(m, f, key, data, ttl_hours, tags, t, ord, fault) ==
  LET expires_at == IF ttl_hours # NULL THEN t + ttl_hours ELSE t + DefaultTtlHours
      size_bytes == PickleSize(data)
      row        == [created_at |-> t, expires_at |-> expires_at,
                     access_count |-> IF key \in DOMAIN m THEN m[key].access_count ELSE 0,
                     last_accessed |-> IF key \in DOMAIN m THEN m[key].last_accessed ELSE NULL,
                     size_bytes |-> size_bytes, tags |-> tags]
  IN IF ~Picklable(data)
       \* pickle.dump raises: the file it opened is unlinked, the table is untouched
       THEN [meta |-> m, files |-> Without(f, {key}), ret |-> FALSE, evicted |-> {}]
     ELSE
       \* the blob is on disk before the eviction runs; _remove_entry unlinks
       \* the file of every victim, the one just written included
       LET victims == IF GetTotalSize(m) + size_bytes > Budget
                        THEN CleanupBySize(m, ord, size_bytes) ELSE {}
       IN IF fault = "insert"
            THEN [meta |-> Without(m, victims),
                  files |-> Without(f, victims \cup {key}),
                  ret |-> FALSE, evicted |-> victims]
            ELSE [meta |-> With(Without(m, victims), key, row),
                  files |-> Without(With(f, key, data), victims),
                  ret |-> TRUE, evicted |-> victims]

\* PromptCache.set: new table, new files, the value returned and the keys the
\* capacity eviction removed
SetEffect(m, f, key, data, ttl_hours, tags, t, ord, fault) ==
  LET expires_at == IF ttl_hours # NULL THEN t + ttl_hours ELSE t + DefaultTtlHours
      size_bytes == PickleSize(data)
      row        == [created_at |-> t, expires_at |-> expires_at, access_count |-> 0,
                     last_accessed |-> NULL, size_bytes |-> size_bytes, tags |-> tags]
  IN IF ~Picklable(data)
       \* pickle.dump raises: the file it opened is unlinked, the table is untouched
       THEN [meta |-> m, files |-> Without(f, {key}), ret |-> FALSE, evicted |-> {}]
     ELSE
       \* the blob is on disk before the eviction runs; _remove_entry unlinks
       \* the file of every victim, the one just written included
       LET victims == IF GetTotalSize(m) + size_bytes > Budget
                        THEN CleanupBySize(m, ord, size_bytes) ELSE {}
       IN IF fault = "insert"
            THEN [meta |-> Without(m, victims),
                  files |-> Without(f, victims \cup {key}),
                  ret |-> FALSE, evicted |-> victims]
            ELSE [meta |-> With(Without(m, victims), key, row),
                  files |-> Without(With(f, key, data), victims),
                  ret |-> TRUE, evicted |-> victims]

\* a slip of find_by_tags: all(...) where the code has any(...)
FindByAllTags(m, tags) ==
  { k \in DOMAIN m : \A tag \in Range(tags) : tag \in Range(m[k].tags) }

\* find_by_tags: keys of the rows that share a tag with the query
FindByTags(m, tags) ==
  { k \in DOMAIN m : \E tag \in Range(tags) : tag \in Range(m[k].tags) }

NoOp == [op |-> "init", key |-> <<>>, data |-> "None", ret |-> "None",
         evicted |-> {}, tags |-> <<>>, log |-> "", fault |-> "none",
         replaced |-> NULL]

\* a fresh cache directory: no row, no blob
InitStore ==
  /\ meta = <<>>
  /\ files = <<>>
  /\ now = 0
  /\ lastOp = NoOp

\* no process_batch call is under way
NoBatch ==
  /\ batch = [items |-> <<>>, enable_analysis |-> FALSE, enable_cache |-> FALSE,
              progress_callback |-> "None", max_workers |-> 0,
              broken |-> "None", db |-> "ok"]
  /\ mainPc = "idle"
  /\ pipe = <<>>
  /\ finished = <<>>
  /\ yielded = <<>>
  /\ early = {}
  /\ report = <<>>

Threads == 1..MaxThreads

\* a thread that is in no store operation
Idle == [pc |-> "idle", op |-> "none", key |-> <<>>, data |-> "None", tags |-> <<>>,
         matching_keys |-> {}, removing |-> <<>>]

\* the RLock is free and no thread is inside the store
NoThreads ==
  /\ lock = 0
  /\ th = [t \in Threads |-> Idle]

\* an empty batch_reports directory, no call made yet
NoReports ==
  /\ reports = <<>>
  /\ runs = 0
  /\ second = 0

\* no ProgressTracker exists and no thread is in update
NoTracker ==
  /\ progress = [total_items |-> 0, completed_items |-> 0, start_time |-> 0, lock |-> 0]
  /\ upd = [t \in Threads |-> [pc |-> "idle", read |-> 0]]
  /\ returned = 0
  /\ handed = <<>>

\* None where a PromptCache is expected; a PromptCache is told by the order
\* of its construction and by the settings and keyword arguments it was
\* built from
NoneInstance == [id |-> 0, settings |-> "None"]

\* the module was imported: _cache_instance = None, _cache_lock free
NoInstance ==
  /\ cacheInstance = NoneInstance
  /\ cacheLock = 0
  /\ gci = [t \in Threads |-> [pc |-> "idle", settings |-> "None", ret |-> NoneInstance,
                                calls |-> 0]]
  /\ constructed = <<>>

Init == InitStore /\ NoBatch /\ NoThreads /\ NoReports /\ NoTracker /\ NoInstance

\* the listings the eviction of this set may see (one dummy when none runs)
SetOrders(m, data) ==
  IF Picklable(data) /\ GetTotalSize(m) + PickleSize(data) > Budget
    THEN LruOrders(m) ELSE {<<>>}

Set(t, data, ttl_hours, fault) ==
  \E ord \in SetOrders(meta, data) :
    \E r \in {SetEffect(meta, files, GenerateKey(t), data, ttl_hours, t.tags, now, ord, fault)} :
       /\ meta' = r.meta
       /\ files' = r.files
       /\ lastOp' = [NoOp EXCEPT !.op = "set", !.key = GenerateKey(t), !.data = data,
                                 !.ret = r.ret, !.evicted = r.evicted,
                                 !.fault = fault,
                                 !.replaced = IF GenerateKey(t) \in DOMAIN meta
                                                THEN meta[GenerateKey(t)].access_count
                                                ELSE NULL]
       /\ now' = now
  /\ UNCHANGED <<batchVars, concVars, reportVars, trackVars, singletonVars>>

Get(t) ==
  \E r \in {GetEffect(meta, files, GenerateKey(t), now)} :
     /\ r.ret # "None" => meta[GenerateKey(t)].access_count < MaxAccess
     /\ meta' = r.meta
     /\ files' = r.files
     /\ lastOp' = [NoOp EXCEPT !.op = "get", !.key = GenerateKey(t), !.ret = r.ret,
                               !.log = r.log]
     /\ now' = now
  /\ UNCHANGED <<batchVars, concVars, reportVars, trackVars, singletonVars>>

InvalidateByTags(tags) ==
  \E matching_keys \in {FindByTags(meta, tags)} :
     /\ meta' = RemoveEntry(meta, files, matching_keys).meta
     /\ files' = RemoveEntry(meta, files, matching_keys).files
     /\ lastOp' = [NoOp EXCEPT !.op = "invalidate_by_tags", !.tags = tags,
                               !.ret = Cardinality(matching_keys)]
     /\ now' = now
  /\ UNCHANGED <<batchVars, concVars, reportVars, trackVars, singletonVars>>

ClearAll ==
  /\ meta' = <<>>
  /\ files' = <<>>
  /\ lastOp' = [NoOp EXCEPT !.op = "clear_all", !.ret = TRUE]
  /\ now' = now
  /\ UNCHANGED <<batchVars, concVars, reportVars, trackVars, singletonVars>>

\* the blob file of a stored key is deleted or overwritten with garbage by
\* something other than the cache (disk fault, cleaning of the directory)
Damage(key, how) ==
  /\ key \in DOMAIN files
  /\ files' = IF how = "unlink" THEN Without(files, {key}) ELSE With(files, key, "garbage")
  /\ lastOp' = [NoOp EXCEPT !.op = "damage", !.key = key]
  /\ UNCHANGED <<meta, now>>
  /\ UNCHANGED <<batchVars, concVars, reportVars, trackVars, singletonVars>>

Tick ==
  /\ now < MaxTime
  /\ now' = now + 1
  /\ UNCHANGED <<meta, files, lastOp>>
  /\ UNCHANGED <<batchVars, concVars, reportVars, trackVars, singletonVars>>

\* one caller; the clock does not advance between its calls
Next ==
  \/ \E t \in Requests, data \in Payloads, fault \in Faults : Set(t, data, NULL, fault)
  \/ \E t \in Requests : Get(t)
  \/ \E tags \in TagQueries : InvalidateByTags(tags)
  \/ ClearAll
  \/ \E key \in Keys, how \in Damages : Damage(key, how)

Spec == Init /\ [][Next]_vars

\* one caller that stores and reads while the clock advances, so that rows
\* differ in last_accessed
NextLru ==
  \/ \E t \in Requests, data \in LruPayloads : Set(t, data, TtlOf(t), "none")
  \/ \E t \in Requests : Get(t)
  \/ Tick

SpecLru == Init /\ [][NextLru]_vars

\* ------------------------------------------------------------ the batch
\* the items a caller may put in a batch: two with the same triple, and one
\* that repeats an id with another triple
ItemPool ==
  { [id |-> "i1", prompt |-> <<"a">>, target_llm |-> <<"x">>, optimization_type |-> <<"d">>],
    [id |-> "i2", prompt |-> <<"a">>, target_llm |-> <<"x">>, optimization_type |-> <<"d">>],
    [id |-> "i2", prompt |-> <<"b">>, target_llm |-> <<"x">>, optimization_type |-> <<"d">>] }

Batches == UNION { [1..n -> ItemPool] : n \in 0..MaxItems }

Collaborators == {"optimizer", "router", "analyzer"}

\* progress_callback: one that returns (an absent callback leaves the same
\* report) and one that raises
Callbacks == {"returns", "raises"}

\* what the collaborator calls of one item do: all return, or the collaborator
\* that fails in this run raises
Outcomes(enable_analysis) == {"ok", batch.broken}

\* the collaborators _process_single_item has called when the calls end that way
Invoked(outcome, enable_analysis) ==
  CASE outcome = "optimizer" -> {"optimizer"}
    [] outcome = "router"    -> {"optimizer", "router"}
    [] OTHER -> {"optimizer", "router"} \cup (IF enable_analysis THEN {"analyzer"} ELSE {})

\* result_data: the dict the pipeline caches; with the analysis it is larger
ResultData(enable_analysis) == IF enable_analysis THEN "p2" ELSE "p1"

\* a slip of the hit test: the cached result is never taken
TruthyNever(cached_result) == FALSE

\* `if cached_result:` of _process_single_item
Truthy(cached_result) == cached_result # "None"

\* a slip of the result: the fields of the payload are not copied
SuccessResultEmpty(idx, item, payload) ==
  [idx |-> idx, item_id |-> item.id, success |-> TRUE, error_message |-> "None",
   payload |-> ""]

\* the BatchResult of the cache-hit branch and of the normal return
SuccessResult(idx, item, payload) ==
  [idx |-> idx, item_id |-> item.id, success |-> TRUE, error_message |-> "None",
   payload |-> payload]

\* a slip of the except branch: the result is built with success=True
FailureResultAsSuccess(idx, item, text) ==
  [idx |-> idx, item_id |-> item.id, success |-> TRUE, error_message |-> text,
   payload |-> ""]

\* the BatchResult of the except branch: success=False, error_message=str(e)
FailureResult(idx, item, text) ==
  [idx |-> idx, item_id |-> item.id, success |-> FALSE, error_message |-> text,
   payload |-> ""]

\* a submitted work item no pool thread has taken yet; starts counts the
\* calls of _process_single_item for it
Queued == [pc |-> "queued", calls |-> {}, raised |-> "none", stored |-> "None",
           result |-> <<>>, starts |-> 0]

EmptyReport(n) ==
  [total_items |-> n, processed_items |-> 0, successful_items |-> 0,
   failed_items |-> 0, results |-> <<>>, errors |-> <<>>]

\* a slip of the collecting loop: only successful results are appended
ReportAfterKeepingSuccesses(rep, item, result, cb) ==
  [rep EXCEPT
     !.results = IF result.success THEN Append(@, result) ELSE @,
     !.successful_items = IF result.success THEN @ + 1 ELSE @,
     !.failed_items = (IF result.success THEN @ ELSE @ + 1)
                      + (IF cb = "raises" THEN 1 ELSE 0),
     !.errors = (IF ~result.success /\ result.error_message # ""
                   THEN Append(@, <<"item", item.id>>) ELSE @)
                \o (IF cb = "raises" THEN << <<"critical", item.id>> >> ELSE <<>>),
     !.processed_items = @ + 1]

\* the body of the as_completed loop for one future: the result is appended
\* and counted, then the progress callback runs; if it raises, the except
\* branch records a critical error and counts a failed item
ReportAfter(rep, item, result, cb) ==
  [rep EXCEPT
     !.results = Append(@, result),
     !.successful_items = IF result.success THEN @ + 1 ELSE @,
     !.failed_items = (IF result.success THEN @ ELSE @ + 1)
                      + (IF cb = "raises" THEN 1 ELSE 0),
     !.errors = (IF ~result.success /\ result.error_message # ""
                   THEN Append(@, <<"item", item.id>>) ELSE @)
                \o (IF cb = "raises" THEN << <<"critical", item.id>> >> ELSE <<>>),
     !.processed_items = @ + 1]

InitBatch ==
  /\ InitStore
  /\ batch \in [items : Batches, enable_analysis : BOOLEAN, enable_cache : BOOLEAN,
                progress_callback : Callbacks, max_workers : 0..MaxWorkers,
                broken : Collaborators, db : {"ok"}]
  /\ batch.broken = "analyzer" => batch.enable_analysis
  /\ mainPc = "called"
  /\ pipe = [i \in 1..Len(batch.items) |-> Queued]
  /\ finished = <<>>
  /\ yielded = <<>>
  /\ early = {}
  /\ report = EmptyReport(Len(batch.items))
  /\ NoThreads
  /\ NoReports
  /\ NoTracker
  /\ NoInstance

\* a slip of the pool: it never counts a thread as busy
RunningNone == {}

\* the items a pool thread is working on
Running == {i \in DOMAIN pipe : pipe[i].pc = "computing"}

\* ProgressTracker.__init__
NewTracker(total_items, t) ==
  [total_items |-> total_items, completed_items |-> 0, start_time |-> t, lock |-> 0]

\* ProgressTracker.get_progress at time t, in whole seconds and whole
\* percents: the division by total_items raises ZeroDivisionError for a
\* tracker of no items, and then no dict is returned
GetProgress(p, t) ==
  IF p.total_items = 0
    THEN [raised |-> "ZeroDivisionError", total_items |-> 0,
          completed_items |-> p.completed_items, progress_percent |-> 0,
          elapsed_time_seconds |-> t - p.start_time, eta_seconds |-> 0]
    ELSE [raised |-> "none", total_items |-> p.total_items,
          completed_items |-> p.completed_items,
          progress_percent |-> (p.completed_items * 100) \div p.total_items,
          elapsed_time_seconds |-> t - p.start_time,
          eta_seconds |-> IF p.completed_items > 0
                            THEN ((t - p.start_time) * (p.total_items - p.completed_items))
                                   \div p.completed_items
                            ELSE 0]

\* ProgressTracker.update(completed) when no other thread is in it
Update(p, completed) == [p EXCEPT !.completed_items = @ + completed]

\* ThreadPoolExecutor(max_workers) and the submit of every item
CreatePool ==
  /\ mainPc = "called"
  /\ mainPc' = IF batch.max_workers <= 0 THEN "raised" ELSE "submitted"
  /\ progress' = NewTracker(Len(batch.items), second)
  /\ UNCHANGED <<batch, pipe, finished, yielded, early, report>>
  /\ UNCHANGED <<upd, returned, handed>>
  /\ UNCHANGED <<storeVars, concVars, reportVars, singletonVars>>

\* a slip of _process_single_item: the lookup ignores enable_cache
StartAlwaysLooksUp(i) ==
  /\ mainPc \in {"submitted", "collecting"}
  /\ pipe[i].pc = "queued"
  /\ \A j \in DOMAIN pipe : j < i => pipe[j].pc # "queued"
  /\ Cardinality(Running) < batch.max_workers
  /\ IF TRUE
       THEN \E r \in {GetEffect(meta, files, GenerateKey(batch.items[i]), now)} :
              /\ meta' = r.meta
              /\ files' = r.files
              /\ IF Truthy(r.ret)
                   THEN /\ pipe' = [pipe EXCEPT ![i].pc = "done", ![i].starts = @ + 1,
                                      ![i].result = SuccessResult(i, batch.items[i], r.ret)]
                        /\ finished' = Append(finished, i)
                   ELSE /\ pipe' = [pipe EXCEPT ![i].pc = "computing", ![i].starts = @ + 1]
                        /\ finished' = finished
       ELSE /\ pipe' = [pipe EXCEPT ![i].pc = "computing", ![i].starts = @ + 1]
            /\ UNCHANGED <<meta, files, finished>>
  /\ UNCHANGED <<now, lastOp, batch, mainPc, yielded, early, report, concVars, reportVars, trackVars, singletonVars>>

\* a free pool thread takes the oldest work item off the queue and runs
\* _process_single_item up to the end of its cache lookup: a hit returns the
\* cached result, a miss (or a disabled cache) goes on to the collaborators
Start(i) ==
  /\ mainPc \in {"submitted", "collecting"}
  /\ pipe[i].pc = "queued"
  /\ \A j \in DOMAIN pipe : j < i => pipe[j].pc # "queued"
  /\ Cardinality(Running) < batch.max_workers
  /\ IF batch.enable_cache
       THEN \E r \in {GetEffect(meta, files, GenerateKey(batch.items[i]), now)} :
              /\ meta' = r.meta
              /\ files' = r.files
              /\ IF Truthy(r.ret)
                   THEN /\ pipe' = [pipe EXCEPT ![i].pc = "done", ![i].starts = @ + 1,
                                      ![i].result = SuccessResult(i, batch.items[i], r.ret)]
                        /\ finished' = Append(finished, i)
                   ELSE /\ pipe' = [pipe EXCEPT ![i].pc = "computing", ![i].starts = @ + 1]
                        /\ finished' = finished
       ELSE /\ pipe' = [pipe EXCEPT ![i].pc = "computing", ![i].starts = @ + 1]
            /\ UNCHANGED <<meta, files, finished>>
  /\ UNCHANGED <<now, lastOp, batch, mainPc, yielded, early, report, concVars, reportVars, trackVars, singletonVars>>

\* the cache.get of the lookup raises sqlite3.Error: get has no handler around
\* its database calls and log_execution_time re-raises, so the except branch
\* of _process_single_item builds the result
StartLookupFails(i) ==
  /\ mainPc \in {"submitted", "collecting"}
  /\ pipe[i].pc = "queued"
  /\ \A j \in DOMAIN pipe : j < i => pipe[j].pc # "queued"
  /\ Cardinality(Running) < batch.max_workers
  /\ batch.enable_cache
  /\ batch.db = "failing"
  /\ pipe' = [pipe EXCEPT ![i].pc = "done", ![i].starts = @ + 1,
                          ![i].raised = "cache.get",
                          ![i].result = FailureResult(i, batch.items[i], "cache.get")]
  /\ finished' = Append(finished, i)
  /\ UNCHANGED <<meta, files, now, lastOp, batch, mainPc, yielded, early, report, concVars, reportVars, trackVars, singletonVars>>

\* a slip of _process_single_item: the except branch caches what it returns
PipelineEffectCachesFailure(m, f, idx, item, enable_analysis, enable_cache, t, outcome, ord, fault) ==
  IF outcome # "ok"
    THEN [meta |-> IF enable_cache
                     THEN SetEffect(m, f, GenerateKey(item), "p1", NULL,
                                    << <<"batch">>, item.target_llm >>, t, ord, fault).meta
                     ELSE m,
          files |-> IF enable_cache
                      THEN SetEffect(m, f, GenerateKey(item), "p1", NULL,
                                     << <<"batch">>, item.target_llm >>, t, ord, fault).files
                      ELSE f,
          raised |-> outcome, stored |-> "None",
          calls |-> Invoked(outcome, enable_analysis),
          result |-> FailureResult(idx, item, outcome)]
  ELSE IF ~enable_cache
    THEN [meta |-> m, files |-> f, raised |-> "none", stored |-> "None",
          calls |-> Invoked(outcome, enable_analysis),
          result |-> SuccessResult(idx, item, ResultData(enable_analysis))]
  ELSE LET r == SetEffect(m, f, GenerateKey(item), ResultData(enable_analysis), NULL,
                          << <<"batch">>, item.target_llm >>, t, ord, fault)
       IN [meta |-> r.meta, files |-> r.files, raised |-> "none", stored |-> IF r.ret THEN "True" ELSE "False",
           calls |-> Invoked(outcome, enable_analysis),
           result |-> SuccessResult(idx, item, ResultData(enable_analysis))]

\* what _process_single_item returns after the lookup missed, and the cache
\* it leaves: the collaborators run (optimizer.optimize, router.route_prompt
\* and, if enabled, analyzer.analyze with save_analysis); if one raises the
\* except branch builds the result, else cache.set stores result_data with
\* tags ['batch', target_llm] when the cache is enabled
PipelineEffect(m, f, idx, item, enable_analysis, enable_cache, t, outcome, ord, fault) ==
  IF outcome # "ok"
    THEN [meta |-> m, files |-> f, raised |-> outcome, stored |-> "None",
          calls |-> Invoked(outcome, enable_analysis),
          result |-> FailureResult(idx, item, outcome)]
  ELSE IF ~enable_cache
    THEN [meta |-> m, files |-> f, raised |-> "none", stored |-> "None",
          calls |-> Invoked(outcome, enable_analysis),
          result |-> SuccessResult(idx, item, ResultData(enable_analysis))]
  ELSE LET r == SetEffect(m, f, GenerateKey(item), ResultData(enable_analysis), NULL,
                          << <<"batch">>, item.target_llm >>, t, ord, fault)
       IN [meta |-> r.meta, files |-> r.files, raised |-> "none", stored |-> IF r.ret THEN "True" ELSE "False",
           calls |-> Invoked(outcome, enable_analysis),
           result |-> SuccessResult(idx, item, ResultData(enable_analysis))]

\* the listings and faults the cache.set of this pipeline may meet
StoreOrders(outcome) ==
  IF outcome = "ok" /\ batch.enable_cache
    THEN SetOrders(meta, ResultData(batch.enable_analysis)) ELSE {<<>>}

\* the cache.set of a pipeline may meet a database error when the database
\* of the run is failing
StoreFaults(outcome) ==
  IF batch.db = "failing" /\ outcome = "ok" /\ batch.enable_cache THEN Faults ELSE {"none"}

\* the rest of _process_single_item: the collaborators and the cache write
\* touch nothing another pipeline reads before the cache.set, so they are one
\* step
Compute(i, outcome) ==
  /\ pipe[i].pc = "computing"
  /\ \E ord \in StoreOrders(outcome), fault \in StoreFaults(outcome) :
       \E r \in {PipelineEffect(meta, files, i, batch.items[i], batch.enable_analysis,
                                batch.enable_cache, now, outcome, ord, fault)} :
         /\ meta' = r.meta
         /\ files' = r.files
         /\ pipe' = [pipe EXCEPT ![i] = [pc |-> "done", calls |-> r.calls,
                                         raised |-> r.raised, stored |-> r.stored,
                                         result |-> r.result,
                                         starts |-> pipe[i].starts]]
  /\ finished' = Append(finished, i)
  /\ UNCHANGED <<now, lastOp, batch, mainPc, yielded, early, report, concVars, reportVars, trackVars, singletonVars>>

\* the main thread enters as_completed: the futures done by then come first
EnterAsCompleted ==
  /\ mainPc = "submitted"
  /\ mainPc' = "collecting"
  /\ early' = Range(finished)
  /\ UNCHANGED <<batch, pipe, finished, yielded, report>>
  /\ UNCHANGED <<storeVars, concVars, reportVars, trackVars, singletonVars>>

\* a slip of as_completed: it never hands out a future that finished after
\* it was entered
NextFuturesOnlyEarly ==
  early \ Range(yielded)

\* the futures as_completed may hand out next: any of those that were done
\* when it was entered, then the others in the order they finished
NextFutures ==
  IF early \ Range(yielded) # {}
    THEN early \ Range(yielded)
    ELSE { finished[p] : p \in { q \in DOMAIN finished :
                                  /\ finished[q] \notin Range(yielded)
                                  /\ \A q2 \in 1..(q - 1) : finished[q2] \in Range(yielded) } }

\* one round of the loop over as_completed
Collect(i) ==
  /\ mainPc = "collecting"
  /\ i \in NextFutures
  /\ yielded' = Append(yielded, i)
  /\ report' = ReportAfter(report, batch.items[i], pipe[i].result, batch.progress_callback)
  /\ progress' = Update(progress, 1)
  /\ handed' = Append(handed, GetProgress(progress', second))
  /\ UNCHANGED <<batch, mainPc, pipe, finished, early>>
  /\ UNCHANGED <<upd, returned>>
  /\ UNCHANGED <<storeVars, concVars, reportVars, singletonVars>>

\* the batch_id arguments: None and "" make process_batch derive the id from
\* the clock (`if not batch_id`), any other string is used as given
BatchIds == {"None", "", "nightly", "weekly"}

\* the id a run works under: batch_<YYYYmmdd_HHMMSS> or the caller's string
ReportId(batch_id, t) ==
  IF batch_id \in {"None", ""} THEN [clock |-> t, name |-> ""]
                               ELSE [clock |-> NULL, name |-> batch_id]

\* _save_batch_report: open(<batch_id>_report.json, 'w') and json.dump
SaveBatchReport(dir, id, doc) == With(dir, id, doc)

\* every future was handed out: the pool shuts down, the report is completed,
\* saved under the clock-derived id and returned
Finalize ==
  /\ mainPc = "collecting"
  /\ Len(yielded) = Len(batch.items)
  /\ mainPc' = "returned"
  /\ reports' = SaveBatchReport(reports, ReportId("None", second),
                                [run |-> runs + 1, started_at |-> second])
  /\ runs' = runs + 1
  /\ UNCHANGED <<batch, pipe, finished, yielded, early, report, second>>
  /\ UNCHANGED <<storeVars, concVars, trackVars, singletonVars>>

NextBatch ==
  \/ CreatePool
  \/ \E i \in DOMAIN pipe : Start(i)
  \/ \E i \in DOMAIN pipe : \E outcome \in Outcomes(batch.enable_analysis) : Compute(i, outcome)
  \/ EnterAsCompleted
  \/ \E i \in DOMAIN pipe : Collect(i)
  \/ Finalize

SpecBatch == InitBatch /\ [][NextBatch]_vars

\* the calls whose termination is checked: batches of any length that repeat
\* one request (so that a later item may be served by the cache), every
\* collaborator able to raise, both callbacks, every pool size
LiveItems == { it \in ItemPool : it.id = "i1" }

InitLive ==
  /\ InitBatch
  /\ \A i \in DOMAIN batch.items : batch.items[i] \in LiveItems
  /\ batch.enable_analysis

\* the same call under the scheduling the code relies on: the interpreter
\* keeps running a thread that can take a step (the pool runs queued work on a
\* free worker, a collaborator call returns or raises, as_completed wakes the
\* main thread when a future is done), so the call never halts while one of
\* its steps is possible
SpecBatchLive == InitLive /\ [][NextBatch]_vars /\ WF_vars(NextBatch)

\* ------------------------------------------- a ProgressTracker that is shared
\* a ProgressTracker of n items was constructed and handed to several threads
InitTracker ==
  /\ InitStore /\ NoBatch /\ NoThreads /\ NoReports /\ NoInstance
  /\ \E n \in 0..MaxItems : progress = NewTracker(n, 0)
  /\ upd = [t \in Threads |-> [pc |-> "idle", read |-> 0]]
  /\ returned = 0
  /\ handed = <<>>

\* the update() calls made so far, returned or not
Updating == {t \in Threads : upd[t].pc # "idle"}

\* a thread calls progress.update()
CallUpdate(t) ==
  /\ mainPc = "idle"
  /\ upd[t].pc = "idle"
  /\ returned + Cardinality(Updating) < MaxUpdates
  /\ upd' = [upd EXCEPT ![t].pc = "lock"]
  /\ UNCHANGED <<progress, returned, handed>>
  /\ UNCHANGED <<storeVars, batchVars, concVars, reportVars, singletonVars>>

\* a slip of update: the body runs without `with self.lock`
UpdateAcquireNoLock(t) ==
  /\ upd[t].pc = "lock"
  /\ upd' = [upd EXCEPT ![t].pc = "load"]
  /\ UNCHANGED <<progress, returned, handed>>
  /\ UNCHANGED <<storeVars, batchVars, concVars, reportVars, singletonVars>>

\* `with self.lock:` is entered
UpdateAcquire(t) ==
  /\ upd[t].pc = "lock"
  /\ progress.lock = 0
  /\ progress' = [progress EXCEPT !.lock = t]
  /\ upd' = [upd EXCEPT ![t].pc = "load"]
  /\ UNCHANGED <<returned, handed>>
  /\ UNCHANGED <<storeVars, batchVars, concVars, reportVars, singletonVars>>

\* self.completed_items += completed, first half: the attribute is read
UpdateLoad(t) ==
  /\ upd[t].pc = "load"
  /\ upd' = [upd EXCEPT ![t].pc = "store", ![t].read = progress.completed_items]
  /\ UNCHANGED <<progress, returned, handed>>
  /\ UNCHANGED <<storeVars, batchVars, concVars, reportVars, singletonVars>>

\* self.completed_items += completed, second half: the sum is written back
UpdateStore(t) ==
  /\ upd[t].pc = "store"
  /\ progress' = [progress EXCEPT !.completed_items = upd[t].read + 1]
  /\ upd' = [upd EXCEPT ![t].pc = "release"]
  /\ UNCHANGED <<returned, handed>>
  /\ UNCHANGED <<storeVars, batchVars, concVars, reportVars, singletonVars>>

\* the with block is left and update returns
UpdateRelease(t) ==
  /\ upd[t].pc = "release"
  /\ progress' = [progress EXCEPT !.lock = IF @ = t THEN 0 ELSE @]
  /\ upd' = [upd EXCEPT ![t].pc = "idle"]
  /\ returned' = returned + 1
  /\ handed' = handed
  /\ UNCHANGED <<storeVars, batchVars, concVars, reportVars, singletonVars>>

\* a thread calls progress.get_progress(): its body runs under the lock and
\* writes nothing, so it is one step; handed keeps the dict of the last call
CallGetProgress(t) ==
  /\ mainPc = "idle"
  /\ upd[t].pc = "idle"
  /\ progress.lock = 0
  /\ handed' = << GetProgress(progress, second) >>
  /\ UNCHANGED <<progress, upd, returned>>
  /\ UNCHANGED <<storeVars, batchVars, concVars, reportVars, singletonVars>>

\* time.time() moves on while the tracker is in use
TrackerTick ==
  /\ mainPc = "idle"
  /\ second < MaxSeconds
  /\ second' = second + 1
  /\ UNCHANGED <<reports, runs, storeVars, batchVars, concVars, trackVars, singletonVars>>

\* a ProgressTracker is used either by one process_batch call, from its main
\* thread, or directly by several threads
InitProgress == InitLive \/ InitTracker

NextProgress ==
  \/ NextBatch
  \/ \E t \in Threads : CallUpdate(t)
  \/ \E t \in Threads : UpdateAcquire(t)
  \/ \E t \in Threads : UpdateLoad(t)
  \/ \E t \in Threads : UpdateStore(t)
  \/ \E t \in Threads : UpdateRelease(t)
  \/ \E t \in Threads : CallGetProgress(t)
  \/ TrackerTick

SpecProgress == InitProgress /\ [][NextProgress]_vars

\* ------------------------------------------------- the process-wide cache
\* the (settings, kwargs) a caller passes to get_cache_instance
SettingsPool == {"s1", "s2"}

\* PromptCache(settings, **kwargs) returns, or raises out of __init__ (the
\* cache directory cannot be made, the database cannot be opened)
Constructions == {"ok", "raises"}

\* a thread calls get_cache_instance(settings, **kwargs)
CallGetCacheInstance(t, settings) ==
  /\ gci[t].pc = "idle"
  /\ gci[t].calls < MaxCalls
  /\ gci' = [gci EXCEPT ![t].pc = "lock", ![t].settings = settings]
  /\ UNCHANGED <<cacheInstance, cacheLock, constructed>>
  /\ UNCHANGED <<storeVars, batchVars, concVars, reportVars, trackVars>>

\* a slip of get_cache_instance: no `with _cache_lock`
GciAcquireNoLock(t) ==
  /\ gci[t].pc = "lock"
  /\ gci' = [gci EXCEPT ![t].pc = "test"]
  /\ UNCHANGED <<cacheInstance, cacheLock, constructed>>
  /\ UNCHANGED <<storeVars, batchVars, concVars, reportVars, trackVars>>

\* `with _cache_lock:` is entered
GciAcquire(t) ==
  /\ gci[t].pc = "lock"
  /\ cacheLock = 0
  /\ cacheLock' = t
  /\ gci' = [gci EXCEPT ![t].pc = "test"]
  /\ UNCHANGED <<cacheInstance, constructed>>
  /\ UNCHANGED <<storeVars, batchVars, concVars, reportVars, trackVars>>

\* `if _cache_instance is None:`
GciTest(t) ==
  /\ gci[t].pc = "test"
  /\ gci' = [gci EXCEPT ![t].pc = IF cacheInstance = NoneInstance THEN "construct"
                                                                  ELSE "return"]
  /\ UNCHANGED <<cacheInstance, cacheLock, constructed>>
  /\ UNCHANGED <<storeVars, batchVars, concVars, reportVars, trackVars>>

\* `_cache_instance = PromptCache(settings, **kwargs)`: the global is
\* assigned only if the constructor returns
GciConstruct(t, outcome) ==
  /\ gci[t].pc = "construct"
  /\ IF outcome = "ok"
       THEN /\ cacheInstance' = [id |-> Len(constructed) + 1, settings |-> gci[t].settings]
            /\ constructed' = Append(constructed, gci[t].settings)
            /\ gci' = [gci EXCEPT ![t].pc = "return"]
       ELSE /\ gci' = [gci EXCEPT ![t].pc = "raise"]
            /\ UNCHANGED <<cacheInstance, constructed>>
  /\ cacheLock' = cacheLock
  /\ UNCHANGED <<storeVars, batchVars, concVars, reportVars, trackVars>>

\* `return _cache_instance`, or the exception of the constructor, leaves the
\* with block
GciLeave(t) ==
  /\ gci[t].pc \in {"return", "raise"}
  /\ cacheLock' = IF cacheLock = t THEN 0 ELSE cacheLock
  /\ gci' = [gci EXCEPT ![t].pc = "idle", ![t].calls = @ + 1,
                        ![t].ret = IF gci[t].pc = "return" THEN cacheInstance
                                                           ELSE NoneInstance]
  /\ UNCHANGED <<cacheInstance, constructed>>
  /\ UNCHANGED <<storeVars, batchVars, concVars, reportVars, trackVars>>

NextSingleton ==
  \/ \E t \in Threads, settings \in SettingsPool : CallGetCacheInstance(t, settings)
  \/ \E t \in Threads : GciAcquire(t)
  \/ \E t \in Threads : GciTest(t)
  \/ \E t \in Threads, outcome \in Constructions : GciConstruct(t, outcome)
  \/ \E t \in Threads : GciLeave(t)

SpecSingleton == Init /\ [][NextSingleton]_vars

\* ---- a batch on a cache that an earlier run has filled ----

\* the row and blob an earlier batch left for the triple (a, x, default),
\* with the expires_at given
WarmRow(expires_at) ==
  [created_at |-> 0, expires_at |-> expires_at, access_count |-> 0,
   last_accessed |-> NULL, size_bytes |-> PickleSize("p1"),
   tags |-> << <<"batch">>, <<"x">> >>]

WarmKey == <<"a", "|", "x", "|", "d">>

\* process_batch is called at hour 1, with the cache enabled or not; the
\* entry of the earlier run is still live or has expired; the database works
\* or fails (which only a run that uses the cache can tell)
InitWarm ==
  /\ now = 1
  /\ \E expires_at \in {0, DefaultTtlHours} :
       meta = [k \in {WarmKey} |-> WarmRow(expires_at)]
  /\ files = [k \in {WarmKey} |-> "p1"]
  /\ lastOp = NoOp
  /\ batch \in [items : Batches, enable_analysis : BOOLEAN, enable_cache : BOOLEAN,
                progress_callback : {"returns"}, max_workers : 1..MaxWorkers,
                broken : {"optimizer"}, db : {"ok", "failing"}]
  /\ ~batch.enable_cache => batch.db = "ok"
  /\ mainPc = "called"
  /\ pipe = [i \in 1..Len(batch.items) |-> Queued]
  /\ finished = <<>>
  /\ yielded = <<>>
  /\ early = {}
  /\ report = EmptyReport(Len(batch.items))
  /\ NoThreads
  /\ NoReports
  /\ NoTracker
  /\ NoInstance

NextWarm ==
  \/ NextBatch
  \/ \E i \in DOMAIN pipe : StartLookupFails(i)

SpecWarm == InitWarm /\ [][NextWarm]_vars

\* ---- process_batch called again and again ----

\* one whole process_batch call: the id is fixed at the start, the items are
\* processed, the report is saved under the id; with max_workers < 1 the call
\* raises before anything is saved
ProcessBatch(batch_id, max_workers) ==
  /\ runs < MaxRuns
  /\ runs' = runs + 1
  /\ reports' = IF max_workers < 1 THEN reports
                ELSE SaveBatchReport(reports, ReportId(batch_id, second),
                                     [run |-> runs + 1, started_at |-> second])
  /\ UNCHANGED <<second, storeVars, batchVars, concVars, trackVars, singletonVars>>

\* the wall clock reaches the next second
TickSecond ==
  /\ second < MaxSeconds
  /\ second' = second + 1
  /\ UNCHANGED <<reports, runs, storeVars, batchVars, concVars, trackVars, singletonVars>>

NextReports ==
  \/ \E batch_id \in BatchIds, max_workers \in 0..1 : ProcessBatch(batch_id, max_workers)
  \/ TickSecond

SpecReports == Init /\ [][NextReports]_vars

\* ---- several threads in the operations of one PromptCache ----

\* a thread calls set, get or clear_all: each starts with `with self._lock`
CallSet(t, req, data) ==
  /\ th[t].pc = "idle"
  /\ th' = [th EXCEPT ![t] = [Idle EXCEPT !.pc = "lock", !.op = "set",
                                          !.key = GenerateKey(req), !.data = data,
                                          !.tags = req.tags]]
  /\ UNCHANGED <<storeVars, batchVars, lock, reportVars, trackVars, singletonVars>>

CallGet(t, req) ==
  /\ th[t].pc = "idle"
  /\ th' = [th EXCEPT ![t] = [Idle EXCEPT !.pc = "lock", !.op = "get",
                                          !.key = GenerateKey(req)]]
  /\ UNCHANGED <<storeVars, batchVars, lock, reportVars, trackVars, singletonVars>>

CallClearAll(t) ==
  /\ th[t].pc = "idle"
  /\ th' = [th EXCEPT ![t] = [Idle EXCEPT !.pc = "lock", !.op = "clear_all"]]
  /\ UNCHANGED <<storeVars, batchVars, lock, reportVars, trackVars, singletonVars>>

\* a thread calls invalidate_by_tags, whose body begins with find_by_tags and
\* takes no lock
CallInvalidateByTags(t, tags) ==
  /\ th[t].pc = "idle"
  /\ th' = [th EXCEPT ![t] = [Idle EXCEPT !.pc = "find", !.op = "invalidate_by_tags",
                                          !.tags = tags]]
  /\ UNCHANGED <<storeVars, batchVars, lock, reportVars, trackVars, singletonVars>>

\* `with self._lock` is entered when no other thread holds the lock; a hit
\* counter at its cap keeps a get waiting
Acquire(t) ==
  /\ th[t].pc = "lock"
  /\ lock = 0
  /\ (th[t].op = "get" /\ th[t].key \in DOMAIN meta)
     => meta[th[t].key].access_count < MaxHits
  /\ lock' = t
  /\ th' = [th EXCEPT ![t].pc = CASE th[t].op = "set" -> "write"
                                  [] th[t].op = "get" -> "select"
                                  [] OTHER -> "clear"]
  /\ UNCHANGED <<storeVars, batchVars, reportVars, trackVars, singletonVars>>

\* set, first half: the payload is pickled into the blob file
SetWrite(t) ==
  /\ th[t].pc = "write"
  /\ files' = With(files, th[t].key, th[t].data)
  /\ th' = [th EXCEPT ![t].pc = "insert"]
  /\ UNCHANGED <<meta, now, lastOp, batchVars, lock, reportVars, trackVars, singletonVars>>

\* set, second half: size check, eviction and INSERT OR REPLACE
SetInsert(t) ==
  /\ th[t].pc = "insert"
  /\ \E ord \in SetOrders(meta, th[t].data) :
       \E r \in {SetEffect(meta, files, th[t].key, th[t].data, NULL, th[t].tags,
                           now, ord, "none")} :
         /\ meta' = r.meta
         /\ files' = r.files
  /\ th' = [th EXCEPT ![t].pc = "release"]
  /\ UNCHANGED <<now, lastOp, batchVars, lock, reportVars, trackVars, singletonVars>>

\* a slip of get: the blob is loaded but the UPDATE of the row is left out
GetBodyNoUpdate(t) ==
  /\ th[t].pc = "select"
  /\ th' = [th EXCEPT ![t].pc = "release"]
  /\ UNCHANGED <<meta, files, now, lastOp, batchVars, lock, reportVars, trackVars, singletonVars>>

\* the body of get
GetBody(t) ==
  /\ th[t].pc = "select"
  /\ \E r \in {GetEffect(meta, files, th[t].key, now)} :
       /\ meta' = r.meta
       /\ files' = r.files
  /\ th' = [th EXCEPT ![t].pc = "release"]
  /\ UNCHANGED <<now, lastOp, batchVars, lock, reportVars, trackVars, singletonVars>>

\* the body of clear_all: every blob file unlinked, every row deleted
ClearBody(t) ==
  /\ th[t].pc = "clear"
  /\ meta' = Without(meta, DOMAIN meta)
  /\ files' = Without(files, DOMAIN files)
  /\ th' = [th EXCEPT ![t].pc = "release"]
  /\ UNCHANGED <<now, lastOp, batchVars, lock, reportVars, trackVars, singletonVars>>

\* leaving `with self._lock` and returning
Release(t) ==
  /\ th[t].pc = "release"
  /\ lock' = 0
  /\ th' = [th EXCEPT ![t] = Idle]
  /\ UNCHANGED <<storeVars, batchVars, reportVars, trackVars, singletonVars>>

\* invalidate_by_tags: matching_keys = self.find_by_tags(tags)
InvFind(t) ==
  /\ th[t].pc = "find"
  /\ th' = [th EXCEPT ![t].pc = "remove",
                      ![t].matching_keys = FindByTags(meta, th[t].tags)]
  /\ UNCHANGED <<storeVars, batchVars, lock, reportVars, trackVars, singletonVars>>

\* _remove_entry of the next matching key: the DELETE
InvDeleteRow(t, k) ==
  /\ th[t].pc = "remove"
  /\ k \in th[t].matching_keys
  /\ meta' = Without(meta, {k})
  /\ th' = [th EXCEPT ![t].pc = "unlink", ![t].removing = k]
  /\ UNCHANGED <<files, now, lastOp, batchVars, lock, reportVars, trackVars, singletonVars>>

\* _remove_entry of that key: the unlink of its blob file
InvUnlink(t) ==
  /\ th[t].pc = "unlink"
  /\ files' = Without(files, {th[t].removing})
  /\ th' = [th EXCEPT ![t].pc = "remove", ![t].removing = <<>>,
                      ![t].matching_keys = @ \ {th[t].removing}]
  /\ UNCHANGED <<meta, now, lastOp, batchVars, lock, reportVars, trackVars, singletonVars>>

\* invalidate_by_tags returns once every matching key was removed
InvReturn(t) ==
  /\ th[t].pc = "remove"
  /\ th[t].matching_keys = {}
  /\ th' = [th EXCEPT ![t] = Idle]
  /\ UNCHANGED <<storeVars, batchVars, lock, reportVars, trackVars, singletonVars>>

ConcRequests == {req \in Requests : req.prompt \in {<<"b">>, <<"a", "|", "x">>}}
ConcTagQueries == { << <<"batch">> >>, << <<"x">>, <<"tmp">> >> }

NextConc ==
  \E t \in Threads :
    \/ \E req \in ConcRequests, data \in LruPayloads : CallSet(t, req, data)
    \/ \E req \in ConcRequests : CallGet(t, req)
    \/ CallClearAll(t)
    \/ \E tags \in ConcTagQueries : CallInvalidateByTags(t, tags)
    \/ Acquire(t)
    \/ SetWrite(t)
    \/ SetInsert(t)
    \/ GetBody(t)
    \/ ClearBody(t)
    \/ Release(t)
    \/ InvFind(t)
    \/ \E k \in Keys : InvDeleteRow(t, k)
    \/ InvUnlink(t)
    \/ InvReturn(t)

SpecConc == Init /\ [][NextConc]_vars

\* ---- several threads that only read a filled cache ----

\* the keys stored before the threads start
StoredKeys == {WarmKey, <<"b", "|", "x", "|", "d">>}

\* two live entries, never read so far
InitGets ==
  /\ meta = [k \in StoredKeys |-> WarmRow(DefaultTtlHours)]
  /\ files = [k \in StoredKeys |-> "p1"]
  /\ now = 0
  /\ lastOp = NoOp
  /\ NoBatch
  /\ NoThreads
  /\ NoReports
  /\ NoTracker
  /\ NoInstance

NextGets ==
  \E t \in Threads :
    \/ \E req \in Requests : CallGet(t, req)
    \/ Acquire(t)
    \/ GetBody(t)
    \/ Release(t)

SpecGets == InitGets /\ [][NextGets]_vars

\* ------------------------------------------------------------------ claims

\* C1: if set returned True, a get for the same triple before the TTL
\* elapses, with no store operation in between, returns the payload stored
C1_SetThenGetReturnsPayload ==
  (/\ lastOp.op = "set"
   /\ lastOp.ret = TRUE
   /\ lastOp.key \in DOMAIN meta => ~Expired(meta[lastOp.key], now))
  => GetEffect(meta, files, lastOp.key, now).ret = lastOp.data

\* C5: after every completed store operation every metadata row has a blob
\* file for its key
C5_EveryRowHasBlob == DOMAIN meta \subseteq DOMAIN files

\* C6: provided no single entry is larger than the budget, after every set
\* that returns the sum of size_bytes over all rows is at most max_size_bytes
C6_NoOversized ==
  /\ PickleSize(lastOp.data) <= Budget
  /\ \A k \in DOMAIN meta : meta[k].size_bytes <= Budget

C7_SortsStrictlyBefore(r1, r2) ==
  \/ r1.access_count < r2.access_count
  \/ /\ r1.access_count = r2.access_count
     /\ r1.last_accessed # r2.last_accessed
     /\ (r1.last_accessed = NULL \/ (r2.last_accessed # NULL /\ r1.last_accessed < r2.last_accessed))

SameTriple(i, j) ==
  /\ batch.items[i].prompt = batch.items[j].prompt
  /\ batch.items[i].target_llm = batch.items[j].target_llm
  /\ batch.items[i].optimization_type = batch.items[j].optimization_type

\* C2 (as stated): with the cache enabled and more than one worker, of two
\* items with the same triple the collaborators are invoked for at most one,
\* and the other is served from the cache
C2_AtMostOneComputePerTriple ==
  \A i, j \in DOMAIN pipe :
    (i # j /\ batch.enable_cache /\ batch.max_workers > 1 /\ SameTriple(i, j))
    => /\ ~(pipe[i].calls # {} /\ pipe[j].calls # {})
       /\ (pipe[i].pc = "done" /\ pipe[j].pc = "done")
          => \E k \in {i, j} : pipe[k].calls = {} /\ pipe[k].result.success

\* the cache holds a live entry, row and blob, for the triple of item j
C2_EntryIntact(j) ==
  LET key == GenerateKey(batch.items[j])
  IN key \in DOMAIN meta /\ key \in DOMAIN files /\ ~Expired(meta[key], now)

\* C2 (amended): once an item has stored its result and the entry is still in
\* the cache when another item with the same triple looks it up, no
\* collaborator is invoked for that other item: it is served from the cache
C2_StoredResultIsReused ==
  [][ \A j \in DOMAIN pipe :
        (/\ batch.enable_cache
         /\ pipe[j].pc = "queued" /\ pipe'[j].pc # "queued"
         /\ C2_EntryIntact(j)
         /\ \E i \in DOMAIN pipe : i # j /\ SameTriple(i, j) /\ pipe[i].stored = "True")
        => /\ pipe'[j].pc = "done"
           /\ pipe'[j].calls = {}
           /\ pipe'[j].result.success
           /\ pipe'[j].result.payload = files[GenerateKey(batch.items[j])] ]_vars

\* one item computed and stored, a later one with the same triple was served
\* from the cache
C2_Witness ==
  \E i, j \in DOMAIN pipe :
    /\ i # j /\ SameTriple(i, j) /\ batch.max_workers > 1
    /\ pipe[i].pc = "done" /\ pipe[i].stored = "True" /\ pipe[i].calls # {}
    /\ pipe[j].pc = "done" /\ pipe[j].calls = {} /\ pipe[j].result.success

\* C3: when process_batch returns for K items, processed_items = K and
\* successful_items + failed_items = K
C3_CountsAddUp ==
  mainPc = "returned"
  => /\ report.processed_items = Len(batch.items)
     /\ report.successful_items + report.failed_items = Len(batch.items)

\* how many elements of a sequence of records carry this id
C4_Count(seq, field, id) == Cardinality({p \in DOMAIN seq : seq[p][field] = id})

\* C4: when process_batch returns, results holds exactly one BatchResult per
\* submitted item (same multiset of ids), each with an explicit success flag
C4_OneResultPerItem ==
  mainPc = "returned"
  => /\ Len(report.results) = Len(batch.items)
     /\ \A p \in DOMAIN batch.items :
          C4_Count(report.results, "item_id", batch.items[p].id)
            = C4_Count(batch.items, "id", batch.items[p].id)
     /\ \A p \in DOMAIN report.results : report.results[p].success \in BOOLEAN

\* a batch of several items returned with a failed and a successful result
C4_Witness ==
  /\ mainPc = "returned"
  /\ Len(batch.items) >= 2
  /\ \E p, q \in DOMAIN report.results :
       report.results[p].success /\ ~report.results[q].success

\* a thread is executing the body of a store operation that mutates
C9_Inside(t) == th[t].pc \notin {"idle", "lock"}

\* C9: every mutating store operation runs entirely while holding the store's
\* lock, and no two threads are inside two such operations at the same time
C9_MutatingOpsHoldTheLock ==
  /\ \A t \in Threads : C9_Inside(t) => lock = t
  /\ \A t, u \in Threads : t # u => ~(C9_Inside(t) /\ C9_Inside(u))

\* C10: if a collaborator raises for an item, its BatchResult has success =
\* false and carries the error text, no exception reaches the caller of
\* process_batch, and every other item is reported with its own outcome
C10_FailureIsIsolated ==
  /\ mainPc = "raised" => \A i \in DOMAIN pipe : pipe[i].raised = "none"
  /\ mainPc = "returned"
     => \A i \in DOMAIN pipe :
          \E p \in DOMAIN report.results :
            /\ report.results[p].idx = i
            /\ pipe[i].raised # "none"
               => /\ ~report.results[p].success
                  /\ report.results[p].error_message = pipe[i].raised
            /\ pipe[i].raised = "none" => report.results[p].success

\* a batch returned in which a collaborator raised for one item and not for
\* another
C10_Witness ==
  /\ mainPc = "returned"
  /\ \E i, j \in DOMAIN pipe : pipe[i].raised # "none" /\ pipe[j].raised = "none"

C12_ResetIsAllOrNothing ==
  [][ (/\ lastOp'.op = "set" /\ now' = now
       /\ lastOp'.key \in DOMAIN meta
       /\ lastOp'.key \in DOMAIN files
       /\ files[lastOp'.key] # "garbage")
      => LET key == lastOp'.key
         IN \/ /\ lastOp'.ret = TRUE
               /\ key \in DOMAIN meta' /\ key \in DOMAIN files'
               /\ files'[key] = lastOp'.data
               /\ meta'[key].size_bytes = PickleSize(lastOp'.data)
               /\ meta'[key].created_at = now
               /\ meta'[key].access_count = 0
            \/ /\ lastOp'.ret = FALSE
               /\ key \in DOMAIN meta' /\ key \in DOMAIN files'
               /\ meta'[key] = meta[key]
               /\ files'[key] = files[key] ]_vars

\* C13: during process_batch at most max_workers item pipelines are in
\* progress at any time, and no item's pipeline is started more than once
C13_BoundedPoolStartsOnce ==
  /\ Cardinality({i \in DOMAIN pipe : pipe[i].pc = "computing"}) <= batch.max_workers
  /\ \A i \in DOMAIN pipe : pipe[i].starts <= 1
  /\ \A i \in DOMAIN pipe : pipe[i].pc # "queued" => pipe[i].starts = 1

\* the pool is full while a submitted item waits for a free thread
C13_Witness ==
  /\ batch.max_workers >= 1
  /\ Cardinality({i \in DOMAIN pipe : pipe[i].pc = "computing"}) = batch.max_workers
  /\ \E i \in DOMAIN pipe : pipe[i].pc = "queued"

\* C15: once a batch report has been persisted under a batch id, no later
\* process_batch run modifies or overwrites that document
C15_PersistedReportIsImmutable ==
  [][ \A id \in DOMAIN reports :
        id \in DOMAIN reports' /\ reports'[id] = reports[id] ]_vars

\* C16: if two items of the list share an id, or max_workers < 1, process_batch
\* raises to its caller and no item's pipeline is ever started
C16_InvalidInputAborts ==
  (\/ \E p, q \in DOMAIN batch.items : p # q /\ batch.items[p].id = batch.items[q].id
   \/ batch.max_workers < 1)
  => /\ mainPc \in {"called", "raised"}
     /\ \A i \in DOMAIN pipe : pipe[i].pc = "queued"

\* C14: if the cache is enabled, works, and holds an unexpired entry for an
\* item's triple, processing the item invokes no collaborator and returns a
\* successful result built from the cached payload
C14_WarmEntryIsServed ==
  [][ \A j \in DOMAIN pipe :
        (/\ batch.enable_cache /\ batch.db = "ok"
         /\ pipe[j].pc = "queued" /\ pipe'[j].pc # "queued"
         /\ GenerateKey(batch.items[j]) \in DOMAIN meta
         /\ meta[GenerateKey(batch.items[j])].expires_at >= now
         /\ GenerateKey(batch.items[j]) \in DOMAIN files)
        => /\ pipe'[j].pc = "done"
           /\ pipe'[j].calls = {}
           /\ pipe'[j].raised = "none"
           /\ pipe'[j].result.success
           /\ pipe'[j].result.item_id = batch.items[j].id
           /\ pipe'[j].result.payload = files[GenerateKey(batch.items[j])] ]_vars

\* an item was served from the entry an earlier run had stored: no item of
\* this batch has stored anything
C14_Witness ==
  /\ batch.db = "ok"
  /\ \A i \in DOMAIN pipe : pipe[i].stored = "None"
  /\ \E j \in DOMAIN pipe :
       /\ pipe[j].pc = "done" /\ pipe[j].calls = {}
       /\ pipe[j].result.success /\ pipe[j].result.payload = "p1"

\* the collaborators an item's pipeline calls when nothing fails
C17_AllCollaborators ==
  {"optimizer", "router"} \cup (IF batch.enable_analysis THEN {"analyzer"} ELSE {})

\* C17: if the cache's get or set fails with a database error while an item
\* is processed, the item is still computed through the collaborators and
\* reported with success = true, as on a cache miss
C17_CacheErrorsDegradeToMiss ==
  \A i \in DOMAIN pipe :
    (/\ pipe[i].pc = "done"
     /\ pipe[i].raised = "cache.get" \/ pipe[i].stored = "False")
    => /\ pipe[i].calls = C17_AllCollaborators
       /\ pipe[i].result.success

C19_EveryHitCountsOnce ==
  [][ /\ \A t \in Threads :
           (/\ th[t].pc = "select" /\ th'[t].pc = "release"
            /\ th[t].key \in DOMAIN meta
            /\ meta[th[t].key].expires_at >= now
            /\ th[t].key \in DOMAIN files)
           => LET key == th[t].key
              IN /\ key \in DOMAIN meta'
                 /\ meta'[key] = [meta[key] EXCEPT
                                    !.access_count = meta[key].access_count + 1,
                                    !.last_accessed = now]
                 /\ \A k \in DOMAIN meta \ {key} : k \in DOMAIN meta' /\ meta'[k] = meta[k]
      /\ \A k \in DOMAIN meta :
           (k \notin DOMAIN meta' \/ meta'[k] # meta[k])
           => \E t \in Threads :
                th[t].pc = "select" /\ th'[t].pc = "release" /\ th[t].key = k ]_vars

\* a thread has just made the second hit on a key while another thread is
\* waiting for the lock inside a get of the same key
C19_Witness ==
  \E t, u \in Threads :
    /\ t # u
    /\ th[t].op = "get" /\ th[t].pc = "release"
    /\ th[u].op = "get" /\ th[u].pc = "lock" /\ th[u].key = th[t].key
    /\ th[t].key \in DOMAIN meta
    /\ meta[th[t].key].access_count = 2

\* C20: a set whose payload is larger than the whole budget, and that meets no
\* other failure, returns True and the entry is returned by the next get
C20_OversizedIsAdmitted ==
  (/\ lastOp.op = "set"
   /\ lastOp.data \in Payloads
   /\ Picklable(lastOp.data)
   /\ PickleSize(lastOp.data) > Budget
   /\ lastOp.fault = "none")
  => /\ lastOp.ret = TRUE
     /\ GetEffect(meta, files, lastOp.key, now).ret = lastOp.data

\* C21: under fair scheduling, with every collaborator call returning or
\* raising, a process_batch call that is running (its pool exists and its
\* items are being worked on) eventually returns its completed report,
\* whatever items failed, and a returned call never runs again
C21_RunningBatchCompletes ==
  /\ (mainPc \in {"submitted", "collecting"}) ~> (mainPc = "returned")
  /\ [](mainPc = "returned" => [](mainPc = "returned"))

\* a call returned although one of its items failed after the loop over
\* as_completed had been entered
C21_Witness ==
  /\ mainPc = "returned"
  /\ runs = 1
  /\ \E i \in DOMAIN pipe : /\ ~pipe[i].result.success
                             /\ i \notin early

\* C22: of two items of one batch, the one whose pipeline finished first has
\* its result earlier in report.results
C22_ResultsInCompletionOrder ==
  \A p, q \in DOMAIN finished :
    p < q =>
      \A k, l \in DOMAIN report.results :
        /\ report.results[k].idx = finished[p]
        /\ report.results[l].idx = finished[q]
        => k < l

C24_EvictionStopsWhenEnoughIsFree ==
  [][ (/\ lastOp'.op = "set" /\ now' = now
       /\ lastOp'.evicted # {})
      => \E v \in lastOp'.evicted :
           GetTotalSize(meta) - SumSizes(meta, lastOp'.evicted \ {v})
             + PickleSize(lastOp'.data) > Budget ]_vars

\* C25: a set that fails after it wrote the blob returns False leaving no
\* blob of its key without a metadata row, and leaving every entry it did not
\* evict as it was; the store still serves the other keys: the next set of
\* another key succeeds and the next get of another stored key returns its
\* payload
C25_FailedSetLeavesNoOrphan ==
  [][ /\ (/\ lastOp'.op = "set" /\ now' = now
          /\ lastOp'.ret = FALSE)
         => /\ lastOp'.key \in DOMAIN files' => lastOp'.key \in DOMAIN meta'
            /\ \A k \in DOMAIN meta \ (lastOp'.evicted \cup {lastOp'.key}) :
                 /\ k \in DOMAIN meta' /\ meta'[k] = meta[k]
                 /\ k \in DOMAIN files => (k \in DOMAIN files' /\ files'[k] = files[k])
      /\ (/\ lastOp.op = "set" /\ lastOp.ret = FALSE /\ lastOp.fault = "insert"
          /\ lastOp'.op = "set" /\ now' = now
          /\ lastOp'.key # lastOp.key
          /\ lastOp'.fault = "none" /\ Picklable(lastOp'.data))
         => /\ lastOp'.ret = TRUE
            /\ lastOp'.key \in DOMAIN meta'
      /\ (/\ lastOp.op = "set" /\ lastOp.ret = FALSE /\ lastOp.fault = "insert"
          /\ lastOp'.op = "get" /\ now' = now
          /\ lastOp'.key # lastOp.key
          /\ lastOp'.key \in DOMAIN meta /\ lastOp'.key \in DOMAIN files
          /\ Loadable(files[lastOp'.key]))
         => lastOp'.ret = files[lastOp'.key] ]_vars

\* a set of a key that is not stored has just failed at its INSERT while
\* another key is stored with its blob
C25_Witness ==
  /\ lastOp.op = "set" /\ lastOp.ret = FALSE /\ lastOp.fault = "insert"
  /\ Picklable(lastOp.data)
  /\ lastOp.key \notin DOMAIN meta
  /\ \E k \in DOMAIN meta : k \in DOMAIN files

\* C26: once every update() call made on a shared ProgressTracker has
\* returned, completed_items is the number of those calls; inside
\* process_batch the dict handed to a progress callback carries
\* completed_items equal to the report's processed_items at that point and at
\* most total_items; a dict reported while completed_items is 0 has an ETA of 0
C26_ProgressCountsEveryUpdate ==
  [][ /\ (mainPc' = "idle" /\ Updating' = {})
         => progress'.completed_items = returned'
      /\ (mainPc' # "idle" /\ Len(handed') > Len(handed))
         => /\ handed'[Len(handed')].raised = "none"
            /\ handed'[Len(handed')].completed_items = report'.processed_items
            /\ handed'[Len(handed')].completed_items <= handed'[Len(handed')].total_items
            /\ handed'[Len(handed')].total_items = Len(batch.items)
      /\ \A k \in DOMAIN handed' :
           (handed'[k].raised = "none" /\ handed'[k].completed_items = 0)
           => handed'[k].eta_seconds = 0 ]_vars

\* at least two update() calls made by the threads that share the tracker
\* have returned, the clock has moved, and the get_progress that followed
\* reported their number
C26_Witness ==
  /\ mainPc = "idle"
  /\ returned >= 2
  /\ Updating = {}
  /\ second > 0
  /\ handed # <<>>
  /\ handed[1].completed_items = returned

\* C27: a set that succeeds on a key that already has a row leaves that row
\* with access_count 0 and last_accessed null, whatever they were, and no
\* other row sorts before it in the order of the capacity eviction
C27_ResetClearsCounters ==
  [][ (/\ lastOp'.op = "set" /\ now' = now
       /\ lastOp'.ret = TRUE
       /\ lastOp'.key \in DOMAIN meta)
      => /\ lastOp'.key \in DOMAIN meta'
         /\ meta'[lastOp'.key].access_count = 0
         /\ meta'[lastOp'.key].last_accessed = NULL
         /\ \A k \in DOMAIN meta' : ~RowBefore(meta'[k], meta'[lastOp'.key])
         /\ \E ord \in LruOrders(meta') : ord[1] = lastOp'.key ]_vars

\* an entry that had been read was stored again while a second entry that
\* was never read is in the store
C27_Witness ==
  /\ lastOp.op = "set" /\ lastOp.ret = TRUE
  /\ lastOp.replaced # NULL /\ lastOp.replaced > 0
  /\ lastOp.key \in DOMAIN meta
  /\ \E k \in DOMAIN meta : k # lastOp.key /\ meta[k].access_count = 0

\* C28: a pipeline in which a collaborator raises writes nothing to the
\* cache, and an item that is started while no item of its triple has stored
\* a result is not served from the cache: it goes on to the collaborators
C28_FailedResultIsNotCached ==
  [][ \A i \in DOMAIN pipe :
        /\ (/\ pipe[i].pc = "computing" /\ pipe'[i].pc = "done"
            /\ pipe'[i].raised # "none")
           => /\ meta' = meta
              /\ files' = files
              /\ pipe'[i].stored = "None"
        /\ (/\ pipe[i].pc = "queued" /\ pipe'[i].pc # "queued"
            /\ \A k \in DOMAIN pipe : SameTriple(k, i) => pipe[k].stored # "True")
           => pipe'[i].pc = "computing" ]_vars

\* with the cache enabled and one worker, a collaborator raised for an item
\* and a later item of the same triple went through the collaborators
C28_Witness ==
  \E i, j \in DOMAIN pipe :
    /\ i < j /\ SameTriple(i, j)
    /\ batch.enable_cache /\ batch.max_workers = 1
    /\ pipe[i].pc = "done" /\ pipe[i].raised # "none"
    /\ pipe[j].pc = "done" /\ pipe[j].calls # {}

\* C29: get_cache_instance constructs at most one PromptCache however its
\* calls interleave; a call that returns, returns that one instance, built
\* from the arguments of the call that constructed it and not from its own;
\* once set, the global is never replaced
C29_OneInstancePerProcess ==
  [][ /\ Len(constructed') <= 1
      /\ \A t \in Threads :
           (gci[t].pc = "return" /\ gci'[t].pc = "idle")
           => /\ gci'[t].ret = cacheInstance'
              /\ gci'[t].ret.id = 1
              /\ gci'[t].ret.settings = constructed'[1]
      /\ cacheInstance # NoneInstance => cacheInstance' = cacheInstance ]_vars

\* two threads have each made their first call, with different arguments,
\* and hold the same instance
C29_Witness ==
  \E t, u \in Threads :
    /\ t # u
    /\ gci[t].pc = "idle" /\ gci[u].pc = "idle"
    /\ gci[t].calls = 1 /\ gci[u].calls = 1
    /\ gci[t].settings # gci[u].settings
    /\ gci[t].ret # NoneInstance
    /\ gci[t].ret = gci[u].ret

\* C30: in a process_batch call with enable_cache false no step changes the
\* store (rows, access counts, blobs), no item is served from or written to
\* the cache, and every finished item went through the collaborators: all of
\* them if none raised, the optimizer at least otherwise
C30_DisabledCacheIsUntouched ==
  [][ ~batch.enable_cache
      => /\ meta' = meta
         /\ files' = files
         /\ \A i \in DOMAIN pipe' :
              pipe'[i].pc = "done"
              => /\ "optimizer" \in pipe'[i].calls
                 /\ pipe'[i].stored = "None"
                 /\ pipe'[i].raised = "none"
                    => pipe'[i].calls = Invoked("ok", batch.enable_analysis) ]_vars

\* a call with enable_cache false returned after computing an item whose
\* triple has a live entry, never read, in the cache
C30_Witness ==
  /\ ~batch.enable_cache
  /\ mainPc = "returned"
  /\ \E i \in DOMAIN pipe :
       /\ GenerateKey(batch.items[i]) = WarmKey
       /\ pipe[i].result.success
       /\ pipe[i].calls # {}
  /\ WarmKey \in DOMAIN meta
  /\ ~Expired(meta[WarmKey], now)
  /\ meta[WarmKey].access_count = 0
  /\ WarmKey \in DOMAIN files

TypeOK == DOMAIN meta \subseteq Keys /\ DOMAIN files \subseteq Keys
====
